---- MODULE Spec2Model ----
(***************************************************************************)
(* Model of the audio pipeline of app.py: main's upload handler, the       *)
(* format normalizer convert_to_wav and the transcription engine           *)
(* transcribe_audio with its primary / show_all fallback recognition.      *)
(*                                                                         *)
(* Time is counted in ticks of half a second, so the 1.0 of line 118 is    *)
(* OneSecond == 2 ticks.  Byte buffers are abstracted to the codec they    *)
(* really contain and the number of ticks of audio they hold.  The file    *)
(* system is the set of temporary paths that exist; os.unlink follows      *)
(* POSIX (it removes an existing path, also an open one, and raises        *)
(* FileNotFoundError for a missing one).  The libraries (pydub, the        *)
(* recognizer, the remote service) are the environment: what they return   *)
(* or raise is chosen with \E in the actions.                              *)
(***************************************************************************)
EXTENDS Integers, Sequences, FiniteSets, TLC

\* ---------------------------------------------------------------- bounds
MaxDuration == 3
MaxRequests == 2
MaxAlternatives == 2

\* ------------------------------------------------------------- constants
\* min(1.0, audio_length): 1.0 second in ticks
OneSecond == 2

VARIABLES pc, requests, file_extension, audio_bytes, language, wav_bytes,
          decoder_calls, st_error, files, tmp_path, audio_length, cursor,
          calibration, audio_data, remote_calls, primary, fallback, result

vars == <<pc, requests, file_extension, audio_bytes, language, wav_bytes,
          decoder_calls, st_error, files, tmp_path, audio_length, cursor,
          calibration, audio_data, remote_calls, primary, fallback, result>>

\* ---------------------------------------------------------------- inputs
\* type=['mp3', 'wav', 'ogg', 'flac', 'm4a'] of the uploader, and one tag
\* outside it for the else branch of convert_to_wav
Extensions == {".mp3", ".wav", ".ogg", ".flac", ".m4a", ".aac"}

Codecs == {"mp3", "wav", "ogg", "flac", "m4a", "aac"}

\* the language codes of language_options (two of the twelve)
Languages == {"en-US", "hi-IN"}

\* what an uploaded buffer can contain: nothing, garbage, or a clip
EmptyBytes == [codec |-> "empty", frames |-> 0]

CorruptBytes == [codec |-> "corrupt", frames |-> 0]

None == [codec |-> "None", frames |-> 0]

Clips == [codec : Codecs, frames : 0..MaxDuration]

Uploads == Clips \cup {EmptyBytes, CorruptBytes}

\* Python truth value of a bytes object or None (if wav_bytes:)
Truthy(b) == b # None /\ b # EmptyBytes

\* ------------------------------------------------------- convert_to_wav
\* the if/elif chain on file_extension: which AudioSegment loader runs
DecoderFor(ext) ==
    CASE ext = ".mp3"  -> "from_mp3"
      [] ext = ".ogg"  -> "from_ogg"
      [] ext = ".flac" -> "from_file:flac"
      [] ext = ".m4a"  -> "from_file:m4a"
      [] ext = ".wav"  -> "none"
      [] OTHER         -> "from_file"

\* the container a loader is told to expect ("" = auto-detect)
FormatOf(decoder) ==
    CASE decoder = "from_mp3"       -> "mp3"
      [] decoder = "from_ogg"       -> "ogg"
      [] decoder = "from_file:flac" -> "flac"
      [] decoder = "from_file:m4a"  -> "m4a"
      [] OTHER                      -> ""

\* The outcomes a loader can have on a buffer: it raises on empty or corrupt
\* bytes and on a container other than the one it was told to expect; on
\* decodable bytes it succeeds, or raises when the codec backend is missing.
DecodeOutcomes(decoder, b) ==
    IF b.codec \notin Codecs THEN {FALSE}
    ELSE IF FormatOf(decoder) # "" /\ FormatOf(decoder) # b.codec THEN {FALSE}
    ELSE BOOLEAN

\* audio.export(wav_io, format='wav'); wav_io.seek(0); wav_io.read()
ExportWav(b) == [codec |-> "wav", frames |-> b.frames]

\* a variant that falls back to the generic loader after a specific one failed
convert_to_wav_retry_generic(b, ext, ok) ==
    IF DecoderFor(ext) = "none"
    THEN [ret |-> b, calls |-> << >>, err |-> ""]
    ELSE IF ok
    THEN [ret |-> ExportWav(b),
          calls |-> << [decoder |-> DecoderFor(ext), ok |-> TRUE] >>,
          err |-> ""]
    ELSE [ret |-> None,
          calls |-> << [decoder |-> DecoderFor(ext), ok |-> FALSE],
                       [decoder |-> "from_file", ok |-> FALSE] >>,
          err |-> "Error converting audio: " \o "decode failed"]

\* convert_to_wav(audio_bytes, file_extension) with the loader's outcome ok:
\* the bytes returned (None after the except branch), the loaders invoked
\* and the message given to st.error
convert_to_wav(b, ext, ok) ==
    IF DecoderFor(ext) = "none"
    THEN [ret |-> b, calls |-> << >>, err |-> ""]
    ELSE IF ok
    THEN [ret |-> ExportWav(b),
          calls |-> << [decoder |-> DecoderFor(ext), ok |-> TRUE] >>,
          err |-> ""]
    ELSE [ret |-> None,
          calls |-> << [decoder |-> DecoderFor(ext), ok |-> FALSE] >>,
          err |-> "Error converting audio: " \o "decode failed"]

\* ----------------------------------------------------- transcribe_audio
\* tempfile.NamedTemporaryFile(delete=False, suffix='.wav'): a fresh name
TmpName(n) == "/tmp/tmp" \o ToString(n) \o ".wav"

\* os.unlink(path) on the file system fs
Unlink(fs, path) ==
    IF path \in fs
    THEN [files |-> fs \ {path}, raised |-> FALSE, msg |-> ""]
    ELSE [files |-> fs, raised |-> TRUE,
          msg |-> "[Errno 2] No such file or directory: '" \o path \o "'"]

\* duration=min(1.0, audio_length)
CalibrationDuration_unclamped(D) == OneSecond

CalibrationDuration(D) == IF OneSecond < D THEN OneSecond ELSE D

\* the dict returned at line 127
PrimarySuccess_low(text, D) ==
    [success |-> TRUE, text |-> text, duration |-> D, confidence |-> "Low"]

PrimarySuccess(text, D) ==
    [success |-> TRUE, text |-> text, duration |-> D, confidence |-> "High"]

\* alternatives[0].get('transcript', '')
GetTranscript(candidate) ==
    IF "transcript" \in DOMAIN candidate THEN candidate.transcript ELSE ""

\* the dict returned at line 143
FallbackSuccess_last(alternatives, D) ==
    [success |-> TRUE, text |-> GetTranscript(alternatives[Len(alternatives)]),
     duration |-> D, confidence |-> "Low"]

FallbackSuccess_high(alternatives, D) ==
    [success |-> TRUE, text |-> GetTranscript(alternatives[1]),
     duration |-> D, confidence |-> "High"]

FallbackSuccess(alternatives, D) ==
    [success |-> TRUE, text |-> GetTranscript(alternatives[1]),
     duration |-> D, confidence |-> "Low"]

\* the dict returned at lines 150 and 157
CouldNotUnderstand_no_duration(D) ==
    [success |-> FALSE, error |-> "Could not understand audio"]

CouldNotUnderstand(D) ==
    [success |-> FALSE, error |-> "Could not understand audio", duration |-> D]

\* except sr.RequestError as e
ApiError_generic(detail) == [success |-> FALSE, error |-> "Error: " \o detail]

ApiError(detail) == [success |-> FALSE, error |-> "API error: " \o detail]

\* except Exception as e
InternalError(detail) == [success |-> FALSE, error |-> "Error: " \o detail]

\* ------------------------------------------------- the remote service
Texts == {"hello world", "um"}

\* recognize_google(audio_data, language=language): a transcript, or
\* sr.UnknownValueError, or sr.RequestError with its message
PrimaryOutcomes ==
    [kind : {"text"}, text : Texts]
    \cup {[kind |-> "UnknownValueError"]}
    \cup {[kind |-> "RequestError", detail |-> "recognition connection failed"]}

\* one entry of result['alternative']: a dict with a transcript, a dict
\* without one, or a value that is no dict
Candidates ==
    [kind : {"dict"}, transcript : Texts]
    \cup {[kind |-> "dict", confidence |-> 1]}
    \cup {[kind |-> "str"]}

SeqsUpTo(S, n) == UNION {[1..k -> S] : k \in 0..n}

\* recognize_google(..., show_all=True): the raw result ([] or {} when the
\* service recognised nothing, a dict with or without 'alternative', a value
\* that is no container), or one of the two exceptions
FallbackOutcomes ==
    {[kind |-> "list"], [kind |-> "dict"], [kind |-> "dict", final |-> TRUE],
     [kind |-> "scalar"]}
    \cup [kind : {"dict"}, alternative : SeqsUpTo(Candidates, MaxAlternatives)]
    \cup {[kind |-> "UnknownValueError"]}
    \cup {[kind |-> "RequestError", detail |-> "recognition connection failed"]}

Raises(r) == r.kind \in {"UnknownValueError", "RequestError"}

\* truth value of the result (if result and ...)
ResultTruthy(r) == r.kind = "scalar" \/ (r.kind = "dict" /\ DOMAIN r # {"kind"})

\* lines 140-154, after the os.unlink of line 138: the value returned, or
\* raised = TRUE when an expression of these lines raises ('alternative' in
\* result on a non-container, alternatives[0].get on a non-dict)
HandleResult(r, D) ==
    IF ~ResultTruthy(r)
    THEN [raised |-> FALSE, ret |-> CouldNotUnderstand(D)]
    ELSE IF r.kind = "scalar"
    THEN [raised |-> TRUE]
    ELSE IF "alternative" \in DOMAIN r /\ Len(r.alternative) > 0
    THEN IF r.alternative[1].kind = "dict"
         THEN [raised |-> FALSE, ret |-> FallbackSuccess(r.alternative, D)]
         ELSE [raised |-> TRUE]
    ELSE [raised |-> FALSE, ret |-> CouldNotUnderstand(D)]

\* ------------------------------------------------------------------ state
NoResult == [returned |-> FALSE]

NoCall == [kind |-> "none"]

NoAudio == [start |-> 0, frames |-> 0]

Init ==
    /\ pc = "idle"
    /\ requests = 0
    /\ file_extension = ""
    /\ audio_bytes = None
    /\ language = ""
    /\ wav_bytes = None
    /\ decoder_calls = << >>
    /\ st_error = ""
    /\ files = {}
    /\ tmp_path = ""
    /\ audio_length = -1
    /\ cursor = 0
    /\ calibration = -1
    /\ audio_data = NoAudio
    /\ remote_calls = << >>
    /\ primary = NoCall
    /\ fallback = NoCall
    /\ result = NoResult

\* ------------------------------------------------------------------- main
\* "Transcribe Audio" pressed on an uploaded file (lines 244-250)
Upload ==
    /\ pc = "idle"
    /\ requests < MaxRequests
    /\ \E ext \in Extensions, b \in Uploads, lang \in Languages :
          /\ file_extension' = ext
          /\ audio_bytes' = b
          /\ language' = lang
    /\ requests' = requests + 1
    /\ pc' = "uploaded"
    /\ UNCHANGED <<wav_bytes, decoder_calls, st_error, files, tmp_path,
                   audio_length, cursor, calibration, audio_data,
                   remote_calls, primary, fallback, result>>

\* lines 253-255: wav_bytes = convert_to_wav(audio_bytes, file_extension)
Convert ==
    /\ pc = "uploaded"
    /\ file_extension # ".wav"
    /\ \E ok \in DecodeOutcomes(DecoderFor(file_extension), audio_bytes) :
          LET c == convert_to_wav(audio_bytes, file_extension, ok) IN
          /\ wav_bytes' = c.ret
          /\ decoder_calls' = c.calls
          /\ st_error' = c.err
    /\ pc' = "converted"
    /\ UNCHANGED <<requests, file_extension, audio_bytes, language, files,
                   tmp_path, audio_length, cursor, calibration, audio_data,
                   remote_calls, primary, fallback, result>>

\* lines 256-257: wav_bytes = audio_bytes
Passthrough ==
    /\ pc = "uploaded"
    /\ file_extension = ".wav"
    /\ wav_bytes' = audio_bytes
    /\ pc' = "converted"
    /\ UNCHANGED <<requests, file_extension, audio_bytes, language,
                   decoder_calls, st_error, files, tmp_path, audio_length,
                   cursor, calibration, audio_data, remote_calls, primary,
                   fallback, result>>

\* line 259, if wav_bytes is falsy: nothing is transcribed
Skip ==
    /\ pc = "converted"
    /\ ~Truthy(wav_bytes)
    /\ pc' = "skipped"
    /\ UNCHANGED <<requests, file_extension, audio_bytes, language, wav_bytes,
                   decoder_calls, st_error, files, tmp_path, audio_length,
                   cursor, calibration, audio_data, remote_calls, primary,
                   fallback, result>>

\* ------------------------------------------------------ transcribe_audio
\* lines 259-261 and 103-111: transcribe_audio is entered and writes
\* audio_bytes to a temporary file that is kept after close (delete=False)
CreateTemp ==
    /\ pc = "converted"
    /\ Truthy(wav_bytes)
    /\ tmp_path' = TmpName(requests)
    /\ files' = files \cup {TmpName(requests)}
    /\ pc' = "tmp"
    /\ UNCHANGED <<requests, file_extension, audio_bytes, language, wav_bytes,
                   decoder_calls, st_error, audio_length, cursor, calibration,
                   audio_data, remote_calls, primary, fallback, result>>

\* lines 114-115: sr.AudioFile(tmp_path) is opened and DURATION read; bytes
\* that are no WAV make it raise ValueError, caught at line 168
OpenSource ==
    /\ pc = "tmp"
    /\ IF wav_bytes.codec = "wav"
       THEN /\ audio_length' = wav_bytes.frames
            /\ cursor' = 0
            /\ pc' = "opened"
            /\ UNCHANGED result
       ELSE /\ result' = InternalError("Audio file could not be read")
            /\ pc' = "done"
            /\ UNCHANGED <<audio_length, cursor>>
    /\ UNCHANGED <<requests, file_extension, audio_bytes, language, wav_bytes,
                   decoder_calls, st_error, files, tmp_path, calibration,
                   audio_data, remote_calls, primary, fallback>>

\* line 118: recognizer.adjust_for_ambient_noise(source, duration=...)
\* consumes the requested window from the start of the source
Calibrate ==
    /\ pc = "opened"
    /\ calibration' = CalibrationDuration(audio_length)
    /\ cursor' = cursor + CalibrationDuration(audio_length)
    /\ pc' = "calibrated"
    /\ UNCHANGED <<requests, file_extension, audio_bytes, language, wav_bytes,
                   decoder_calls, st_error, files, tmp_path, audio_length,
                   audio_data, remote_calls, primary, fallback, result>>

\* line 121: recognizer.record(source) with no offset and no duration reads
\* from the cursor to the end of the stream
Record ==
    /\ pc = "calibrated"
    /\ audio_data' = [start |-> cursor, frames |-> audio_length - cursor]
    /\ cursor' = audio_length
    /\ pc' = "recorded"
    /\ UNCHANGED <<requests, file_extension, audio_bytes, language, wav_bytes,
                   decoder_calls, st_error, files, tmp_path, audio_length,
                   calibration, remote_calls, primary, fallback, result>>

\* lines 124-134 and 163-167: the primary call.  A transcript: unlink and
\* return High.  UnknownValueError: enter the handler of line 134.
\* RequestError: leaves both with-blocks and is caught at line 163.
Primary ==
    /\ pc = "recorded"
    /\ \E r \in PrimaryOutcomes :
          /\ primary' = r
          /\ remote_calls' = Append(remote_calls,
                 [show_all |-> FALSE, audio |-> audio_data, language |-> language])
          /\ CASE r.kind = "text" ->
                    /\ files' = Unlink(files, tmp_path).files
                    /\ result' = IF Unlink(files, tmp_path).raised
                                 THEN InternalError(Unlink(files, tmp_path).msg)
                                 ELSE PrimarySuccess(r.text, audio_length)
                    /\ pc' = "done"
               [] r.kind = "UnknownValueError" ->
                    /\ pc' = "fallback"
                    /\ UNCHANGED <<files, result>>
               [] r.kind = "RequestError" ->
                    /\ result' = ApiError(r.detail)
                    /\ pc' = "done"
                    /\ UNCHANGED files
    /\ UNCHANGED <<requests, file_extension, audio_bytes, language, wav_bytes,
                   decoder_calls, st_error, tmp_path, audio_length, cursor,
                   calibration, audio_data, fallback>>

\* lines 136-161 and 168-172: the show_all call.  When it raises, the bare
\* except unlinks and returns the fixed message.  When it returns, line 138
\* unlinks and lines 140-154 inspect the result; an exception there is
\* caught by the bare except too, whose os.unlink (line 156) then finds the
\* file gone: FileNotFoundError leaves the handler and is caught at line 168.
Fallback ==
    /\ pc = "fallback"
    /\ \E r \in FallbackOutcomes :
          LET first  == Unlink(files, tmp_path)
              second == Unlink(first.files, tmp_path)
              h      == HandleResult(r, audio_length)
          IN
          /\ fallback' = r
          /\ remote_calls' = Append(remote_calls,
                 [show_all |-> TRUE, audio |-> audio_data, language |-> language])
          /\ IF Raises(r)
             THEN /\ files' = first.files
                  /\ result' = IF first.raised THEN InternalError(first.msg)
                               ELSE CouldNotUnderstand(audio_length)
             ELSE IF first.raised
             THEN /\ files' = second.files
                  /\ result' = IF second.raised THEN InternalError(second.msg)
                               ELSE CouldNotUnderstand(audio_length)
             ELSE IF h.raised
             THEN /\ files' = second.files
                  /\ result' = IF second.raised THEN InternalError(second.msg)
                               ELSE CouldNotUnderstand(audio_length)
             ELSE /\ files' = first.files
                  /\ result' = h.ret
    /\ pc' = "done"
    /\ UNCHANGED <<requests, file_extension, audio_bytes, language, wav_bytes,
                   decoder_calls, st_error, tmp_path, audio_length, cursor,
                   calibration, audio_data, primary>>

\* the script runs again for the next upload: the locals of the last run
\* are gone, the file system is not
Rerun ==
    /\ pc \in {"done", "skipped"}
    /\ pc' = "idle"
    /\ file_extension' = ""
    /\ audio_bytes' = None
    /\ language' = ""
    /\ wav_bytes' = None
    /\ decoder_calls' = << >>
    /\ st_error' = ""
    /\ tmp_path' = ""
    /\ audio_length' = -1
    /\ cursor' = 0
    /\ calibration' = -1
    /\ audio_data' = NoAudio
    /\ remote_calls' = << >>
    /\ primary' = NoCall
    /\ fallback' = NoCall
    /\ result' = NoResult
    /\ UNCHANGED <<requests, files>>

Next ==
    \/ Upload
    \/ Convert
    \/ Passthrough
    \/ Skip
    \/ CreateTemp
    \/ OpenSource
    \/ Calibrate
    \/ Record
    \/ Primary
    \/ Fallback
    \/ Rerun

Spec == Init /\ [][Next]_vars

\* ================================================================= claims
Returned == pc = "done"

DurationRead == audio_length >= 0

FixedFailure == [success |-> FALSE, error |-> "Could not understand audio",
                 duration |-> audio_length]

\* C1: after every terminal outcome of transcribe_audio the temporary file
\* that call created no longer exists.
C1_TempReleasedOnEveryExit == Returned => tmp_path \notin files

\* C2: every outcome returned after the duration D was read carries
\* duration = D, failures included.
C2_DurationAlwaysPopulated ==
    (Returned /\ DurationRead) =>
        ("duration" \in DOMAIN result /\ result.duration = audio_length)

\* the fallback call raised, or handling what it returned raised
FallbackFaulted ==
    \/ fallback.kind \in {"UnknownValueError", "RequestError"}
    \/ fallback.kind = "scalar"
    \/ /\ fallback.kind = "dict"
       /\ "alternative" \in DOMAIN fallback
       /\ Len(fallback.alternative) > 0
       /\ fallback.alternative[1].kind # "dict"

\* C3: once the fallback pass has started, any error in it (the call raising,
\* or a fault while handling its result) yields Failure "Could not understand
\* audio" with duration D, never another error string.
C3_FallbackErrorsNormalized ==
    (Returned /\ Len(remote_calls) = 2 /\ FallbackFaulted) =>
        result = FixedFailure

\* C4: when the primary call succeeds the outcome is Success High with the
\* primary call's text and duration D, and the fallback call is not made in
\* that request.
C4_PrimarySuccessIsHigh ==
    primary.kind = "text" =>
        /\ Returned
        /\ result = [success |-> TRUE, text |-> primary.text,
                     duration |-> audio_length, confidence |-> "High"]
        /\ Len(remote_calls) = 1
        /\ ~remote_calls[1].show_all
        /\ fallback = NoCall

C4_Witness ==
    /\ Returned
    /\ primary.kind = "text"
    /\ primary.text = "hello world"
    /\ audio_length = 3

\* the fallback call returned a list whose first-ranked entry is a candidate
RankedListReturned ==
    /\ primary.kind = "UnknownValueError"
    /\ fallback.kind = "dict"
    /\ "alternative" \in DOMAIN fallback
    /\ Len(fallback.alternative) > 0
    /\ fallback.alternative[1].kind = "dict"

\* C5: primary signals no speech and the fallback returns a non-empty ranked
\* list: Success Low with duration D and the first-ranked candidate's
\* transcript (the empty string when that candidate carries none).
C5_FallbackTakesFirstCandidate ==
    (Returned /\ RankedListReturned) =>
        /\ result.success
        /\ result.confidence = "Low"
        /\ result.duration = audio_length
        /\ result.text =
              IF "transcript" \in DOMAIN fallback.alternative[1]
              THEN fallback.alternative[1].transcript
              ELSE ""

C5_Witness ==
    /\ Returned
    /\ RankedListReturned
    /\ Len(fallback.alternative) = 2
    /\ fallback.alternative[1] = [kind |-> "dict", transcript |-> "um"]
    /\ fallback.alternative[2] = [kind |-> "dict", transcript |-> "hello world"]
    /\ audio_length = 1

\* the fallback call signalled no speech or returned no candidates
NoCandidates ==
    /\ primary.kind = "UnknownValueError"
    /\ \/ fallback.kind = "UnknownValueError"
       \/ fallback.kind = "list"
       \/ fallback.kind = "dict" /\ "alternative" \notin DOMAIN fallback
       \/ /\ fallback.kind = "dict"
          /\ "alternative" \in DOMAIN fallback
          /\ Len(fallback.alternative) = 0

\* C6: primary signals no speech and the fallback signals no speech too or
\* returns no candidates: Failure "Could not understand audio", duration D.
C6_NoCandidatesIsFixedFailure ==
    (Returned /\ NoCandidates) => result = FixedFailure

C6_Witness ==
    /\ Returned
    /\ NoCandidates
    /\ fallback = [kind |-> "dict", alternative |-> << >>]
    /\ audio_length = 3

\* C7: a transport error of the primary call yields Failure with a reason
\* starting "API error:", after exactly one remote call and no fallback.
C7_TransportErrorIsTerminal ==
    primary.kind = "RequestError" =>
        /\ Returned
        /\ ~result.success
        /\ Len(result.error) >= 10
        /\ SubSeq(result.error, 1, 10) = "API error:"
        /\ Len(remote_calls) = 1
        /\ ~remote_calls[1].show_all
        /\ fallback = NoCall

C7_Witness ==
    /\ Returned
    /\ primary.kind = "RequestError"
    /\ result.error = "API error: recognition connection failed"

ViaFallback ==
    /\ primary.kind = "UnknownValueError"
    /\ Len(remote_calls) = 2
    /\ remote_calls[2].show_all
    /\ fallback.kind = "dict"

ViaPrimary ==
    /\ primary.kind = "text"
    /\ Len(remote_calls) = 1
    /\ ~remote_calls[1].show_all
    /\ result.text = primary.text

\* C8: a Success is Low exactly when it was produced by the fallback call
\* after the primary signalled no speech, and High exactly when its text
\* came from the primary call.
C8_ConfidenceTracksPath ==
    (Returned /\ result.success) =>
        /\ result.confidence \in {"High", "Low"}
        /\ (result.confidence = "Low") <=> ViaFallback
        /\ (result.confidence = "High") <=> ViaPrimary

C8_Witness ==
    /\ Returned
    /\ result.success
    /\ result.confidence = "Low"
    /\ ViaFallback

Converted == pc \notin {"idle", "uploaded"} /\ file_extension # ".wav"

\* C9: for a non-canonical format exactly one decoder runs, the one the tag
\* selects (the generic one for any other tag); when it fails no bytes are
\* returned, nothing is retried and the generic decoder is not tried after a
\* specific one.
C9_OneDecoderNoRetry ==
    Converted =>
        /\ Len(decoder_calls) = 1
        /\ decoder_calls[1].decoder =
              CASE file_extension = ".mp3"  -> "from_mp3"
                [] file_extension = ".ogg"  -> "from_ogg"
                [] file_extension = ".flac" -> "from_file:flac"
                [] file_extension = ".m4a"  -> "from_file:m4a"
                [] OTHER                    -> "from_file"
        /\ ~decoder_calls[1].ok => wav_bytes = None
        /\ decoder_calls[1].ok => wav_bytes.codec = "wav"

C9_Witness ==
    /\ pc = "skipped"
    /\ file_extension = ".ogg"
    /\ audio_bytes = CorruptBytes
    /\ ~decoder_calls[1].ok
    /\ st_error # ""

Calibrated == pc \in {"calibrated", "recorded", "fallback"} \/ (Returned /\ Len(remote_calls) > 0)

Window == IF audio_length < OneSecond THEN audio_length ELSE OneSecond

====
